---------------------------- MODULE Spec2Model ----------------------------
(*
  The per-channel message cache of hata/discord/channel.py:
    ChannelTextBase  (_mc_init, _set_mc_gc_limit, _mc_find, _mc_insert_*,
                      _mc_pop, _mc_pop_multiple, _mc_process_chunk),
    GC_messages / switch_to_limited / Q_on_GC, message_relativeindex,
    MessageIterator (__init__, __anext__ around its await).

  A message object is a record [id, gen]: id is the snowflake, gen tells two
  distinct objects that carry the same id apart: gen 1 is the object the
  registry MESSAGES holds (or would create) for the id, gen 2 is a second
  object with the same id that a caller hands in.  channel.messages is a
  collections.deque: its content and its maxlen are modelled together.
  Python indexes are 0-based; a deque index i is position i+1 of the sequence.
*)
EXTENDS Integers, Sequences, FiniteSets, TLC

\* ------------------------------------------------------------------ bounds
MaxId == 3            \* message ids are 1..MaxId
MaxCapacity == 2      \* limits handed to _set_mc_gc_limit are 0..MaxCapacity
MaxBatch == 2         \* longest id list handed to _mc_pop_multiple
MaxPage == 3          \* longest page handed to _mc_process_chunk
MaxTime == 4          \* the clock runs 1..MaxTime
MC_GC_LIMIT == 2      \* ChannelTextBase.MC_GC_LIMIT (10 in the source), scaled down
MaxLen == 4           \* a page is reconciled while the cache stays within MaxLen messages

\* ------------------------------------------------------- program constants
None == -1            \* deque.maxlen of an unbounded deque
GracePeriod == 2      \* delay between the last detach and the demotion
MAX_CHUNK == 97       \* the largest chunksize of a MessageIterator

Channels == {1, 2}
Cursors == {1, 2}
Ids == 1..MaxId
Gens == {1, 2}
Messages == [id : Ids, gen : Gens]
Registered(message_id) == [id |-> message_id, gen |-> 1]
NoError == "ok"

VARIABLES
    chan,       \* chan[c]: the ChannelTextBase slots of channel c
    Q_on_GC,    \* the module-level deque of channels waiting for demotion
    MESSAGES,   \* the registry: MESSAGES[id] is TRUE when the id is registered
    now,        \* monotonic()
    ret,        \* the last call: its name, its channel and its error
    kept,       \* history: the ids inserted into channel 1 and not removed since
    iter,       \* iter[k]: the MessageIterator k over channel 1
    can_read_message_history,   \* the client's permission in channel 1, as cached
    mark,       \* history: the last detach of channel 1, its messages and deadline
    returned    \* history: the messages iterator 1 returned since its construction

vars == <<chan, Q_on_GC, MESSAGES, now, ret, kept, iter, can_read_message_history, mark,
          returned>>

cursors == <<iter, can_read_message_history>>

\* ------------------------------------------------------------ small helpers
Min(a, b) == IF a < b THEN a ELSE b

SeqIds(s) == [i \in 1..Len(s) |-> s[i].id]

IdSet(s) == {s[i].id : i \in 1..Len(s)}

RECURSIVE SeqsUpTo(_, _)
SeqsUpTo(S, n) ==
    IF n = 0 THEN {<<>>}
    ELSE LET shorter == SeqsUpTo(S, n - 1)
         IN  shorter \cup {Append(s, x) : s \in {t \in shorter : Len(t) = n - 1}, x \in S}

StrictlyDescending(ids) == \A i \in 1..(Len(ids) - 1) : ids[i] > ids[i + 1]

\* list.sort(reverse = True): insertion sort, descending, duplicates kept
RECURSIVE SortDesc(_)
SortDesc(ids) ==
    IF Len(ids) <= 1 THEN ids
    ELSE LET rest == SortDesc(Tail(ids))
             x == Head(ids)
             k == Cardinality({i \in 1..Len(rest) : rest[i] > x})
         IN  SubSeq(rest, 1, k) \o <<x>> \o SubSeq(rest, k + 1, Len(rest))

\* ----------------------------------------------------- collections.deque
deque_full(self, maxlen) == maxlen # None /\ Len(self) = maxlen

\* deque.append: a full deque drops its leftmost item, a maxlen 0 deque keeps nothing
deque_append(self, maxlen, x) ==
    IF maxlen = 0 THEN self
    ELSE IF deque_full(self, maxlen) THEN Append(Tail(self), x)
    ELSE Append(self, x)

\* deque.appendleft: a full deque drops its rightmost item
deque_appendleft(self, maxlen, x) ==
    IF maxlen = 0 THEN self
    ELSE IF deque_full(self, maxlen) THEN <<x>> \o SubSeq(self, 1, Len(self) - 1)
    ELSE <<x>> \o self

\* deque.insert(index, x) on a deque that is not full; an index past the end appends
deque_insert(self, index, x) ==
    LET k == Min(index, Len(self))
    IN  SubSeq(self, 1, k) \o <<x>> \o SubSeq(self, k + 1, Len(self))

\* del deque[index]
deque_del(self, index) == SubSeq(self, 1, index) \o SubSeq(self, index + 2, Len(self))

\* deque.pop(): drops the rightmost item
deque_pop(self) == SubSeq(self, 1, Len(self) - 1)

\* deque((old[i] for i in range(limit)), maxlen = limit)
deque_first(old, limit) == SubSeq(old, 1, limit)

\* ------------------------------------------------ message_relativeindex
\* the loop with >= in the comparison of line 268
RECURSIVE relativeindex_loop_ge(_, _, _, _)
relativeindex_loop_ge(self, message_id, bot, top) ==
    IF bot < top
    THEN LET half == (bot + top) \div 2
         IN  IF self[half + 1].id >= message_id
             THEN relativeindex_loop_ge(self, message_id, half + 1, top)
             ELSE relativeindex_loop_ge(self, message_id, bot, half)
    ELSE bot

RECURSIVE relativeindex_loop(_, _, _, _)
relativeindex_loop(self, message_id, bot, top) ==
    IF bot < top
    THEN LET half == (bot + top) \div 2
         IN  IF self[half + 1].id > message_id
             THEN relativeindex_loop(self, message_id, half + 1, top)
             ELSE relativeindex_loop(self, message_id, bot, half)
    ELSE bot

message_relativeindex(self, message_id) ==
    relativeindex_loop(self, message_id, 0, Len(self))

\* ------------------------------------------------------- ChannelTextBase
\* _mc_init
mc_init ==
    [messages |-> <<>>, maxlen |-> MC_GC_LIMIT, mc_gc_limit |-> MC_GC_LIMIT,
     turn_gc_on_at |-> 0, message_history_reached_end |-> FALSE]

\* switch_to_limited without the assignment of line 48
switch_to_limited_keeps_deadline(channel) ==
    LET old == channel.messages
        limit == channel.mc_gc_limit
    IN  [channel EXCEPT
            !.messages = IF Len(old) > limit THEN deque_first(old, limit) ELSE old,
            !.maxlen = limit,
            !.message_history_reached_end = FALSE]

switch_to_limited(channel) ==
    LET old == channel.messages
        limit == channel.mc_gc_limit
    IN  [channel EXCEPT
            !.messages = IF Len(old) > limit THEN deque_first(old, limit) ELSE old,
            !.maxlen = limit,
            !.turn_gc_on_at = 0,
            !.message_history_reached_end = FALSE]

\* the setter of mc_gc_limit without the new deque of line 300
set_mc_gc_limit_zero_keeps(channel, limit) ==
    IF channel.mc_gc_limit = limit THEN channel
    ELSE IF limit <= 0
    THEN [channel EXCEPT !.mc_gc_limit = 0]
    ELSE LET old == channel.messages
         IN  IF Len(old) > limit
             THEN [channel EXCEPT !.messages = deque_first(old, limit),
                                  !.maxlen = limit, !.mc_gc_limit = limit]
             ELSE [channel EXCEPT !.mc_gc_limit = limit]

\* the setter of mc_gc_limit
set_mc_gc_limit(channel, limit) ==
    IF channel.mc_gc_limit = limit THEN channel
    ELSE IF limit <= 0
    THEN [channel EXCEPT !.mc_gc_limit = 0, !.messages = <<>>, !.maxlen = 0]
    ELSE LET old == channel.messages
         IN  IF Len(old) > limit
             THEN [channel EXCEPT !.messages = deque_first(old, limit),
                                  !.maxlen = limit, !.mc_gc_limit = limit]
             ELSE [channel EXCEPT !.mc_gc_limit = limit]

\* _mc_find: <<message or none, found>>; the registry answers a local miss
RegistryGet(registry, message_id) ==
    IF registry[message_id] THEN <<Registered(message_id)>> ELSE <<>>

\* _mc_find without the comparison of line 317
mc_find_no_id_check(channel, registry, message_id) ==
    LET self == channel.messages
        index == message_relativeindex(self, message_id)
    IN  IF channel.mc_gc_limit # 0 /\ index # Len(self)
        THEN [val |-> <<self[index + 1]>>, found |-> TRUE]
        ELSE [val |-> RegistryGet(registry, message_id), found |-> FALSE]

mc_find(channel, registry, message_id) ==
    LET self == channel.messages
        index == message_relativeindex(self, message_id)
    IN  IF channel.mc_gc_limit # 0 /\ index # Len(self) /\ self[index + 1].id = message_id
        THEN [val |-> <<self[index + 1]>>, found |-> TRUE]
        ELSE [val |-> RegistryGet(registry, message_id), found |-> FALSE]

\* _mc_insert_asynced_message with append in the place of insert(index, ...)
mc_insert_asynced_message_append(channel, message) ==
    LET self == channel.messages
        index == message_relativeindex(self, message.id)
    IN  IF index # Len(self) /\ self[index + 1].id = message.id
        THEN [messages |-> self, val |-> <<self[index + 1]>>, err |-> NoError]
        ELSE [messages |-> deque_append(self, channel.maxlen, message),
              val |-> <<message>>, err |-> NoError]

\* _mc_insert_asynced_message: [messages, val, err]
mc_insert_asynced_message(channel, message) ==
    LET self == channel.messages
        index == message_relativeindex(self, message.id)
    IN  IF index # Len(self) /\ self[index + 1].id = message.id
        THEN [messages |-> self, val |-> <<self[index + 1]>>, err |-> NoError]
        ELSE IF deque_full(self, channel.maxlen)
        THEN IF Len(self) = 0
             THEN [messages |-> self, val |-> <<>>, err |-> "IndexError"]
             ELSE [messages |-> deque_insert(deque_pop(self), index, message),
                   val |-> <<message>>, err |-> NoError]
        ELSE [messages |-> deque_insert(self, index, message),
              val |-> <<message>>, err |-> NoError]

\* _mc_insert_new_message
mc_insert_new_message(channel, message) ==
    LET self == channel.messages
    IN  IF Len(self) = 0
        THEN [messages |-> deque_append(self, channel.maxlen, message),
              val |-> <<message>>, err |-> NoError]
        ELSE IF message.id > self[1].id
        THEN [messages |-> deque_appendleft(self, channel.maxlen, message),
              val |-> <<message>>, err |-> NoError]
        ELSE IF message.id = self[1].id
        THEN [messages |-> self, val |-> <<self[1]>>, err |-> NoError]
        ELSE mc_insert_asynced_message(channel, message)

\* _mc_insert_old_message: on a cache that is not empty, line 343 compares the int
\* message.id with the Message object self[-1]; int.__lt__ answers NotImplemented
\* and no Message method accepts an int, so the comparison raises TypeError
mc_insert_old_message(channel, message) ==
    LET self == channel.messages
    IN  IF Len(self) # 0
        THEN [messages |-> self, val |-> <<>>, err |-> "TypeError"]
        ELSE [messages |-> deque_append(self, channel.maxlen, message),
              val |-> <<message>>, err |-> NoError]


\* MESSAGES.pop(message_id, None): <<message or none>> and the registry without it
RegistryPop(registry, message_id) == [registry EXCEPT ![message_id] = FALSE]

\* Q_on_GC.remove(channel): drops the first occurrence
RECURSIVE deque_remove(_, _)
deque_remove(q, c) ==
    IF Len(q) = 0 THEN q
    ELSE IF Head(q) = c THEN Tail(q)
    ELSE <<Head(q)>> \o deque_remove(Tail(q), c)

InQueue(q, c) == \E i \in 1..Len(q) : q[i] = c

\* the early demotion switching to a new, empty deque
early_demotion_empties(channel, q, c) ==
    IF channel.turn_gc_on_at # 0 /\ Len(channel.messages) < channel.mc_gc_limit
    THEN IF InQueue(q, c)
         THEN [channel |-> switch_to_limited([channel EXCEPT !.turn_gc_on_at = 0,
                                                             !.messages = <<>>]),
               Q |-> deque_remove(q, c), err |-> NoError]
         ELSE [channel |-> channel, Q |-> q, err |-> "ValueError"]
    ELSE [channel |-> channel, Q |-> q, err |-> NoError]

\* lines 375-379 and 443-447: the early demotion of a channel whose cache got small
early_demotion(channel, q, c) ==
    IF channel.turn_gc_on_at # 0 /\ Len(channel.messages) < channel.mc_gc_limit
    THEN IF InQueue(q, c)
         THEN [channel |-> switch_to_limited([channel EXCEPT !.turn_gc_on_at = 0]),
               Q |-> deque_remove(q, c), err |-> NoError]
         ELSE [channel |-> channel, Q |-> q, err |-> "ValueError"]
    ELSE [channel |-> channel, Q |-> q, err |-> NoError]

\* _mc_pop without the comparison of line 371
mc_pop_no_id_check(channel, q, registry, c, message_id) ==
    LET self == channel.messages
        index == message_relativeindex(self, message_id)
        fallback == [channel |-> channel, Q |-> q,
                     registry |-> RegistryPop(registry, message_id),
                     val |-> RegistryGet(registry, message_id), err |-> NoError]
    IN  IF channel.mc_gc_limit = 0 THEN fallback
        ELSE IF index = Len(self) THEN fallback
        ELSE LET deleted == [channel EXCEPT !.messages = deque_del(self, index)]
                 after == early_demotion(deleted, q, c)
             IN  [channel |-> after.channel, Q |-> after.Q, registry |-> registry,
                  val |-> IF after.err = NoError THEN <<self[index + 1]>> ELSE <<>>,
                  err |-> after.err]

\* _mc_pop: [channel, Q, registry, val, err]
mc_pop(channel, q, registry, c, message_id) ==
    LET self == channel.messages
        index == message_relativeindex(self, message_id)
        fallback == [channel |-> channel, Q |-> q,
                     registry |-> RegistryPop(registry, message_id),
                     val |-> RegistryGet(registry, message_id), err |-> NoError]
    IN  IF channel.mc_gc_limit = 0 THEN fallback
        ELSE IF index = Len(self) THEN fallback
        ELSE IF self[index + 1].id # message_id THEN fallback
        ELSE LET deleted == [channel EXCEPT !.messages = deque_del(self, index)]
                 after == early_demotion(deleted, q, c)
             IN  [channel |-> after.channel, Q |-> after.Q, registry |-> registry,
                  val |-> IF after.err = NoError THEN <<self[index + 1]>> ELSE <<>>,
                  err |-> after.err]

\* lines 411-422: once the cache is used up, the registry answers the remaining ids
RECURSIVE pop_multiple_rest(_, _, _, _)
pop_multiple_rest(registry, message_ids, delete_index, result) ==
    LET delete_id == message_ids[delete_index + 1]
        result2 == result \o RegistryGet(registry, delete_id)
    IN  IF delete_index + 1 = Len(message_ids) THEN result2
        ELSE pop_multiple_rest(registry, message_ids, delete_index + 1, result2)

\* lines 398-441: the merge of the sorted ids with the cache
RECURSIVE pop_multiple_loop(_, _, _, _, _, _)
pop_multiple_loop(self, registry, message_ids, message_index, delete_index, result) ==
    LET message == self[message_index + 1]
        delete_id == message_ids[delete_index + 1]
        delete_ln == Len(message_ids)
    IN  IF message.id = delete_id
        THEN LET self2 == deque_del(self, message_index)
                 result2 == Append(result, message)
             IN  IF delete_index + 1 = delete_ln
                 THEN [messages |-> self2, val |-> result2]
                 ELSE IF message_index = Len(self2)
                 THEN [messages |-> self2,
                       val |-> pop_multiple_rest(registry, message_ids,
                                                 delete_index + 1, result2)]
                 ELSE pop_multiple_loop(self2, registry, message_ids, message_index,
                                        delete_index + 1, result2)
        ELSE IF message.id > delete_id
        THEN IF message_index + 1 = Len(self)
             THEN [messages |-> self, val |-> result]
             ELSE pop_multiple_loop(self, registry, message_ids, message_index + 1,
                                    delete_index, result)
        ELSE LET result2 == result \o RegistryGet(registry, delete_id)
             IN  IF delete_index + 1 = delete_ln
                 THEN [messages |-> self, val |-> result2]
                 ELSE pop_multiple_loop(self, registry, message_ids, message_index,
                                        delete_index + 1, result2)

\* _mc_pop_multiple: [channel, Q, val, err]; ids is the caller's list
mc_pop_multiple(channel, q, registry, c, ids) ==
    LET self == channel.messages
        message_ids == SortDesc(ids)
        same == [channel |-> channel, Q |-> q, val |-> <<>>, err |-> NoError]
    IN  IF Len(self) = 0 THEN same
        ELSE IF Len(message_ids) = 0 THEN [same EXCEPT !.err = "IndexError"]
        ELSE LET message_index == message_relativeindex(self, message_ids[1])
             IN  IF message_index = Len(self) THEN same
                 ELSE LET merged == pop_multiple_loop(self, registry, message_ids,
                                                      message_index, 0, <<>>)
                          after == early_demotion(
                                       [channel EXCEPT !.messages = merged.messages], q, c)
                      IN  [channel |-> after.channel, Q |-> after.Q,
                           val |-> IF after.err = NoError THEN merged.val ELSE <<>>,
                           err |-> after.err]

\* --------------------------------------------------- the message registry
\* Message.exists(data, channel): the registered object and True, or a new
\* registered object and False
Message_exists(registry, data) ==
    [message |-> Registered(data), exists |-> registry[data],
     registry |-> [registry EXCEPT ![data] = TRUE]]

\* Message.onetime(data, channel): a new object, without a lookup
Message_onetime(registry, data) ==
    [message |-> Registered(data), registry |-> [registry EXCEPT ![data] = TRUE]]

\* Message.fromchannel(data, channel): resolve, and append to the cache when new
Message_fromchannel(channel, registry, data) ==
    LET r == Message_exists(registry, data)
    IN  [message |-> r.message, registry |-> r.registry,
         messages |-> IF r.exists THEN channel.messages
                      ELSE deque_append(channel.messages, channel.maxlen, r.message)]

\* the creation of a message object registers its id
Register(registry, message) == [registry EXCEPT ![message.id] = TRUE]

\* ----------------------------------------------------- _mc_process_chunk
\* lines 487-492: data[0] was new; every payload goes to the result only
RECURSIVE chunk_new_loop(_, _, _, _)
chunk_new_loop(registry, data, index, result) ==
    IF index = Len(data) THEN [registry |-> registry, val |-> result]
    ELSE LET r == Message_onetime(registry, data[index + 1])
         IN  chunk_new_loop(r.registry, data, index + 1, Append(result, r.message))

\* lines 478-484: the rest of the page is appended without a lookup
RECURSIVE chunk_append_loop(_, _, _, _, _, _)
chunk_append_loop(self, maxlen, registry, data, index, result) ==
    IF index = Len(data) THEN [messages |-> self, registry |-> registry, val |-> result]
    ELSE LET r == Message_onetime(registry, data[index + 1])
         IN  chunk_append_loop(deque_append(self, maxlen, r.message), maxlen, r.registry,
                               data, index + 1, Append(result, r.message))

\* the loop of lines 467-476 appending the known messages as well
RECURSIVE chunk_known_loop_appends(_, _, _, _, _, _)
chunk_known_loop_appends(self, maxlen, registry, data, index, result) ==
    IF index = Len(data) THEN [messages |-> self, registry |-> registry, val |-> result]
    ELSE LET r == Message_exists(registry, data[index + 1])
         IN  chunk_known_loop_appends(deque_append(self, maxlen, r.message), maxlen,
                                      r.registry, data, index + 1,
                                      Append(result, r.message))

\* lines 467-476: data[0] was known; look every payload up until one is new
RECURSIVE chunk_known_loop(_, _, _, _, _, _)
chunk_known_loop(self, maxlen, registry, data, index, result) ==
    IF index = Len(data) THEN [messages |-> self, registry |-> registry, val |-> result]
    ELSE LET r == Message_exists(registry, data[index + 1])
             result2 == Append(result, r.message)
         IN  IF r.exists
             THEN chunk_known_loop(self, maxlen, r.registry, data, index + 1, result2)
             ELSE chunk_append_loop(deque_append(self, maxlen, r.message), maxlen,
                                    r.registry, data, index + 1, result2)

\* _mc_process_chunk: [messages, registry, val]
mc_process_chunk(channel, registry, data) ==
    LET self == channel.messages
        limit == Len(data)
    IN  IF limit < 2
        THEN IF limit = 1
             THEN LET r == Message_fromchannel(channel, registry, data[1])
                  IN  [messages |-> r.messages, registry |-> r.registry,
                       val |-> <<r.message>>]
             ELSE [messages |-> self, registry |-> registry, val |-> <<>>]
        ELSE LET first == Message_exists(registry, data[1])
             IN  IF first.exists
                 THEN chunk_known_loop(self, channel.maxlen, first.registry, data, 0,
                                       <<first.message>>)
                 ELSE LET r == chunk_new_loop(first.registry, data, 0, <<first.message>>)
                      IN  [messages |-> self, registry |-> r.registry, val |-> r.val]

\* ------------------------------------------------------------ GC_messages
\* GC_messages without the test of line 32: every queued channel is switched
RECURSIVE GC_loop_no_deadline(_, _, _, _)
GC_loop_no_deadline(channels, q, index, t) ==
    IF index < 0 THEN [chan |-> channels, Q |-> q]
    ELSE LET channel == q[index + 1]
         IN  GC_loop_no_deadline([channels EXCEPT ![channel] = switch_to_limited(@)],
                                 deque_del(q, index), index - 1, t)

\* GC_messages with the test of line 32 turned around
RECURSIVE GC_loop_greater(_, _, _, _)
GC_loop_greater(channels, q, index, t) ==
    IF index < 0 THEN [chan |-> channels, Q |-> q]
    ELSE LET channel == q[index + 1]
         IN  IF channels[channel].turn_gc_on_at > t
             THEN GC_loop_greater([channels EXCEPT ![channel] = switch_to_limited(@)],
                                  deque_del(q, index), index - 1, t)
             ELSE GC_loop_greater(channels, q, index - 1, t)

\* GC_messages leaving its loop after the first channel it switched
RECURSIVE GC_loop_first(_, _, _, _)
GC_loop_first(channels, q, index, t) ==
    IF index < 0 THEN [chan |-> channels, Q |-> q]
    ELSE LET channel == q[index + 1]
         IN  IF channels[channel].turn_gc_on_at < t
             THEN [chan |-> [channels EXCEPT ![channel] = switch_to_limited(@)],
                   Q |-> deque_del(q, index)]
             ELSE GC_loop_first(channels, q, index - 1, t)

RECURSIVE GC_loop(_, _, _, _)
GC_loop(channels, q, index, t) ==
    IF index < 0 THEN [chan |-> channels, Q |-> q]
    ELSE LET channel == q[index + 1]
         IN  IF channels[channel].turn_gc_on_at < t
             THEN GC_loop([channels EXCEPT ![channel] = switch_to_limited(@)],
                          deque_del(q, index), index - 1, t)
             ELSE GC_loop(channels, q, index - 1, t)

\* GC_messages that never reaches the last queued channel
GC_messages_skip_last(channels, q, t) == GC_loop(channels, q, Len(q) - 2, t)

\* GC_messages that switches every channel, queued or not
GC_messages_all(channels, q, t) ==
    [chan |-> [c \in Channels |-> switch_to_limited(channels[c])], Q |-> <<>>]

GC_messages(channels, q, t) == GC_loop(channels, q, Len(q) - 1, t)

\* -------------------------------------------------------- MessageIterator
\* the slot of an iterator that was not constructed yet
NoIterator ==
    [pc |-> "none", chunksize |-> 0, index |-> 0, permission |-> FALSE, before |-> 0]

\* MessageIterator.__init__ without the test of lines 225-226
MessageIterator_init_no_cap(chunksize, can_read) ==
    [pc |-> "idle", chunksize |-> chunksize, index |-> 0,
     permission |-> ~can_read, before |-> 0]

\* MessageIterator.__init__; can_read is
\* channel.cached_permissions_for(client).can_read_message_history
MessageIterator_init(chunksize, can_read) ==
    [pc |-> "idle",
     chunksize |-> IF chunksize > MAX_CHUNK THEN MAX_CHUNK ELSE chunksize,
     index |-> 0,
     permission |-> ~can_read,
     before |-> 0]

\* __anext__ without the test of _permission
anext_no_permission(it, channel) ==
    LET index == it.index
    IN  IF Len(channel.messages) > index
        THEN [it |-> [it EXCEPT !.index = index + 1], out |-> NoError,
              val |-> <<channel.messages[index + 1]>>, till |-> 0]
        ELSE IF channel.message_history_reached_end
        THEN [it |-> it, out |-> "StopAsyncIteration", val |-> <<>>, till |-> 0]
        ELSE [it |-> it, out |-> "await", val |-> <<>>, till |-> index + it.chunksize]

\* __anext__ with the test of line 244 before the test of line 240
anext_end_first(it, channel) ==
    LET index == it.index
    IN  IF channel.message_history_reached_end \/ it.permission
        THEN [it |-> it, out |-> "StopAsyncIteration", val |-> <<>>, till |-> 0]
        ELSE IF Len(channel.messages) > index
        THEN [it |-> [it EXCEPT !.index = index + 1], out |-> NoError,
              val |-> <<channel.messages[index + 1]>>, till |-> 0]
        ELSE [it |-> it, out |-> "await", val |-> <<>>, till |-> index + it.chunksize]

\* __anext__ reading the permission of the client at the call
anext_live_permission(it, channel) ==
    LET index == it.index
    IN  IF Len(channel.messages) > index
        THEN [it |-> [it EXCEPT !.index = index + 1], out |-> NoError,
              val |-> <<channel.messages[index + 1]>>, till |-> 0]
        ELSE IF channel.message_history_reached_end \/ ~can_read_message_history
        THEN [it |-> it, out |-> "StopAsyncIteration", val |-> <<>>, till |-> 0]
        ELSE [it |-> it, out |-> "await", val |-> <<>>, till |-> index + it.chunksize]

\* __anext__ returning the cached message without moving the index
anext_no_advance(it, channel) ==
    LET index == it.index
    IN  IF Len(channel.messages) > index
        THEN [it |-> it, out |-> NoError,
              val |-> <<channel.messages[index + 1]>>, till |-> 0]
        ELSE IF channel.message_history_reached_end \/ it.permission
        THEN [it |-> it, out |-> "StopAsyncIteration", val |-> <<>>, till |-> 0]
        ELSE [it |-> it, out |-> "await", val |-> <<>>, till |-> index + it.chunksize]

\* __anext__ up to its await: [it, out, val, till]; out is "ok" with the returned
\* message in val, "StopAsyncIteration", or "await" with the size asked for in till
anext(it, channel) ==
    LET index == it.index
    IN  IF Len(channel.messages) > index
        THEN [it |-> [it EXCEPT !.index = index + 1], out |-> NoError,
              val |-> <<channel.messages[index + 1]>>, till |-> 0]
        ELSE IF channel.message_history_reached_end \/ it.permission
        THEN [it |-> it, out |-> "StopAsyncIteration", val |-> <<>>, till |-> 0]
        ELSE [it |-> it, out |-> "await", val |-> <<>>, till |-> index + it.chunksize]

\* __anext__ after its await without the second look at the cache
anext_resume_no_retry(it, channel, err) ==
    IF err # NoError /\ err # "IndexError"
    THEN [it |-> it, out |-> err, val |-> <<>>]
    ELSE [it |-> it, out |-> "StopAsyncIteration", val |-> <<>>]

\* __anext__ after its await: [it, out, val]; err is what _load_messages_till raised
anext_resume(it, channel, err) ==
    LET index == it.index
    IN  IF err # NoError /\ err # "IndexError"
        THEN [it |-> it, out |-> err, val |-> <<>>]
        ELSE IF Len(channel.messages) > index
        THEN [it |-> [it EXCEPT !.index = index + 1], out |-> NoError,
              val |-> <<channel.messages[index + 1]>>]
        ELSE [it |-> it, out |-> "StopAsyncIteration", val |-> <<>>]

\* what _load_messages_till can raise
LoadErrors == {"IndexError", "DiscordException"}

\* client._load_messages_till once the page is there: an empty page marks the end
\* of the history, any other page goes through _mc_process_chunk
load_messages_till(channel, registry, data) ==
    IF Len(data) = 0
    THEN [channel |-> [channel EXCEPT !.message_history_reached_end = TRUE],
          registry |-> registry]
    ELSE LET r == mc_process_chunk(channel, registry, data)
         IN  [channel |-> [channel EXCEPT !.messages = r.messages],
              registry |-> r.registry]

\* ------------------------------------------------------------------ state
NoCall == [op |-> "none", c |-> 0, err |-> NoError]

NoMark == [messages |-> <<>>, deadline |-> 0]

Call(op, c, err) == [op |-> op, c |-> c, err |-> err]

Init ==
    /\ chan = [c \in Channels |-> mc_init]
    /\ Q_on_GC = <<>>
    /\ MESSAGES = [i \in Ids |-> FALSE]
    /\ now = 1
    /\ ret = NoCall
    /\ kept = {}
    /\ iter = [k \in Cursors |-> NoIterator]
    /\ can_read_message_history = TRUE
    /\ mark = NoMark
    /\ returned = <<>>

\* ---------------------------------------------------------------- actions
\* a call of an insert method; a second object (gen 2) presupposes a registered id
InsertCall(op, c, message, r) ==
    /\ message.gen = 1 \/ MESSAGES[message.id]
    /\ chan' = [chan EXCEPT ![c].messages = r.messages]
    /\ MESSAGES' = Register(MESSAGES, message)
    /\ ret' = Call(op, c, r.err)
    /\ UNCHANGED <<Q_on_GC, now, cursors, mark, returned>>

InsertLiveCall(c, message) ==
    InsertCall("InsertLive", c, message, mc_insert_new_message(chan[c], message))

InsertHistoricalCall(c, message) ==
    InsertCall("InsertHistorical", c, message, mc_insert_old_message(chan[c], message))

RemoveCall(c, message_id) ==
    LET r == mc_pop(chan[c], Q_on_GC, MESSAGES, c, message_id)
    IN  /\ chan' = [chan EXCEPT ![c] = r.channel]
        /\ Q_on_GC' = r.Q
        /\ MESSAGES' = r.registry
        /\ ret' = Call("Remove", c, r.err)
        /\ UNCHANGED <<now, cursors, mark, returned>>

InsertLive(c, message) == InsertLiveCall(c, message) /\ UNCHANGED kept

InsertHistorical(c, message) == InsertHistoricalCall(c, message) /\ UNCHANGED kept

Remove(c, message_id) == RemoveCall(c, message_id) /\ UNCHANGED kept

Locate(c, message_id) ==
    /\ ret' = Call("Locate", c, NoError)
    /\ UNCHANGED <<chan, Q_on_GC, MESSAGES, now, kept, cursors, mark, returned>>

RemoveBatch(c, ids) ==
    LET r == mc_pop_multiple(chan[c], Q_on_GC, MESSAGES, c, ids)
    IN  /\ chan' = [chan EXCEPT ![c] = r.channel]
        /\ Q_on_GC' = r.Q
        /\ ret' = Call("RemoveBatch", c, r.err)
        /\ UNCHANGED <<MESSAGES, now, kept, cursors, mark, returned>>

SetCapacity(c, limit) ==
    /\ chan' = [chan EXCEPT ![c] = set_mc_gc_limit(@, limit)]
    /\ ret' = Call("SetCapacity", c, NoError)
    /\ UNCHANGED <<Q_on_GC, MESSAGES, now, kept, cursors, mark, returned>>

\* a page is newest first and not newer than the oldest cached message
PageFor(channel, data) ==
    /\ StrictlyDescending(data)
    /\ Len(channel.messages) > 0 /\ Len(data) > 0
          => data[1] <= channel.messages[Len(channel.messages)].id

ProcessChunk(c, data) ==
    LET r == mc_process_chunk(chan[c], MESSAGES, data)
    IN  /\ PageFor(chan[c], data)
        /\ chan' = [chan EXCEPT ![c].messages = r.messages]
        /\ MESSAGES' = r.registry
        /\ ret' = Call("ProcessChunk", c, NoError)
        /\ UNCHANGED <<Q_on_GC, now, kept, cursors, mark, returned>>

\* a consumer attaches: the cache becomes unbounded, a pending demotion is dropped
Attach(c) ==
    /\ chan[c].mc_gc_limit # 0
    /\ chan[c].maxlen # None \/ chan[c].turn_gc_on_at # 0
    /\ chan' = [chan EXCEPT ![c].maxlen = None, ![c].turn_gc_on_at = 0]
    /\ Q_on_GC' = deque_remove(Q_on_GC, c)
    /\ ret' = Call("Attach", c, NoError)
    /\ UNCHANGED <<MESSAGES, now, kept, cursors, mark, returned>>

\* the last consumer detaches: the demotion is scheduled, nothing shrinks yet
DetachCall(c) ==
    /\ chan[c].maxlen = None
    /\ chan[c].turn_gc_on_at = 0
    /\ chan' = [chan EXCEPT ![c].turn_gc_on_at = now + GracePeriod]
    /\ Q_on_GC' = Append(Q_on_GC, c)
    /\ ret' = Call("Detach", c, NoError)
    /\ UNCHANGED <<MESSAGES, now, kept, cursors>>

Detach(c) == DetachCall(c) /\ UNCHANGED <<mark, returned>>

\* the detach of channel 1, with the history of what it left behind
TrackedDetach ==
    /\ DetachCall(1)
    /\ mark' = [messages |-> chan[1].messages, deadline |-> now + GracePeriod]
    /\ UNCHANGED returned

\* GC_cycler runs GC_messages
Tick ==
    LET r == GC_messages(chan, Q_on_GC, now)
    IN  /\ chan' = r.chan
        /\ Q_on_GC' = r.Q
        /\ ret' = Call("Tick", 0, NoError)
        /\ UNCHANGED <<MESSAGES, now, kept, cursors, mark, returned>>

AdvanceTime ==
    /\ now < MaxTime
    /\ now' = now + 1
    /\ ret' = Call("AdvanceTime", 0, NoError)
    /\ UNCHANGED <<chan, Q_on_GC, MESSAGES, kept, cursors, mark, returned>>

Pages == {data \in SeqsUpTo(Ids, MaxPage) : StrictlyDescending(data)}

\* the requested chunk sizes: one message, the largest size, and one above it
ChunkSizes == {1, MAX_CHUNK, MAX_CHUNK + 1}

\* a consumer constructs iterator k over channel 1
NewIteratorCall(k, chunksize) ==
    /\ iter[k].pc # "await"
    /\ iter' = [iter EXCEPT ![k] = MessageIterator_init(chunksize, can_read_message_history)]
    /\ ret' = Call("NewIterator", k, NoError)
    /\ UNCHANGED <<chan, Q_on_GC, MESSAGES, now, kept, can_read_message_history, mark>>

NewIterator(k, chunksize) == NewIteratorCall(k, chunksize) /\ UNCHANGED returned

\* the id the request asks the messages before: the oldest cached one, 0 for none
OldestId(channel) ==
    IF Len(channel.messages) = 0 THEN 0
    ELSE channel.messages[Len(channel.messages)].id

\* __anext__ of iterator k runs up to its return, its raise or its await
AnextCall(k) ==
    LET r == anext(iter[k], chan[1])
    IN  /\ iter[k].pc = "idle"
        /\ iter' = [iter EXCEPT ![k] =
                        IF r.out = "await"
                        THEN [r.it EXCEPT !.pc = "await", !.before = OldestId(chan[1])]
                        ELSE r.it]
        /\ ret' = Call("Next", k, r.out)
        /\ UNCHANGED <<chan, Q_on_GC, MESSAGES, now, kept, can_read_message_history, mark>>

Anext(k) == AnextCall(k) /\ UNCHANGED returned

\* the page answers the request: newest first, not newer than the message the
\* request named, not longer than the chunk size
PageOf(it, data) ==
    /\ StrictlyDescending(data)
    /\ Len(data) <= it.chunksize
    /\ it.before # 0 /\ Len(data) > 0 => data[1] <= it.before

\* the page of iterator k arrives: _load_messages_till reconciles it and
\* __anext__ runs to its end
LoadedCall(k, data) ==
    LET l == load_messages_till(chan[1], MESSAGES, data)
        r == anext_resume(iter[k], l.channel, NoError)
    IN  /\ iter[k].pc = "await"
        /\ PageOf(iter[k], data)
        /\ Len(l.channel.messages) <= MaxLen
        /\ chan' = [chan EXCEPT ![1] = l.channel]
        /\ MESSAGES' = l.registry
        /\ iter' = [iter EXCEPT ![k] = [r.it EXCEPT !.pc = "idle", !.before = 0]]
        /\ ret' = Call("Next", k, r.out)
        /\ UNCHANGED <<Q_on_GC, now, kept, can_read_message_history, mark>>

Loaded(k, data) == LoadedCall(k, data) /\ UNCHANGED returned

\* the request of iterator k fails: _load_messages_till raises err
LoadFailedCall(k, err) ==
    LET r == anext_resume(iter[k], chan[1], err)
    IN  /\ iter[k].pc = "await"
        /\ iter' = [iter EXCEPT ![k] = [r.it EXCEPT !.pc = "idle", !.before = 0]]
        /\ ret' = Call("Next", k, r.out)
        /\ UNCHANGED <<chan, Q_on_GC, MESSAGES, now, kept, can_read_message_history, mark>>

LoadFailed(k, err) == LoadFailedCall(k, err) /\ UNCHANGED returned

\* the permissions of the client in channel 1 change
SetPermission(can_read) ==
    /\ can_read_message_history # can_read
    /\ can_read_message_history' = can_read
    /\ ret' = Call("SetPermission", 1, NoError)
    /\ UNCHANGED <<chan, Q_on_GC, MESSAGES, now, kept, iter, mark, returned>>

IdLists == SeqsUpTo(Ids, MaxBatch)

\* the cache of one channel under every call, in both modes
Next ==
    \/ \E message \in Messages : InsertLive(1, message)
    \/ \E message \in Messages : InsertHistorical(1, message)
    \/ \E message_id \in Ids : Locate(1, message_id)
    \/ \E message_id \in Ids : Remove(1, message_id)
    \/ \E ids \in IdLists : RemoveBatch(1, ids)
    \/ \E limit \in 0..MaxCapacity : SetCapacity(1, limit)
    \/ \E data \in Pages : ProcessChunk(1, data)
    \/ Attach(1)
    \/ Detach(1)

Spec == Init /\ [][Next]_vars

\* the inserts and removals of one channel, with the history of what was handed in
TrackedInsertLive(message) ==
    /\ InsertLiveCall(1, message)
    /\ kept' = IF ret'.err = NoError THEN kept \cup {message.id} ELSE kept

TrackedInsertHistorical(message) ==
    /\ InsertHistoricalCall(1, message)
    /\ kept' = IF ret'.err = NoError THEN kept \cup {message.id} ELSE kept

TrackedRemove(message_id) ==
    RemoveCall(1, message_id) /\ kept' = kept \ {message_id}

NextTracked ==
    \/ \E message \in Messages : TrackedInsertLive(message)
    \/ \E message \in Messages : TrackedInsertHistorical(message)
    \/ \E message_id \in Ids : TrackedRemove(message_id)

SpecTracked == Init /\ [][NextTracked]_vars

\* one iterator over channel 1 while live messages arrive
NextCursor ==
    \/ \E chunksize \in ChunkSizes : NewIterator(1, chunksize)
    \/ Anext(1)
    \/ \E data \in Pages : Loaded(1, data)
    \/ \E err \in LoadErrors : LoadFailed(1, err)
    \/ \E can_read \in BOOLEAN : SetPermission(can_read)
    \/ \E message_id \in Ids : InsertLive(1, Registered(message_id))
    \/ Attach(1)

SpecCursor == Init /\ [][NextCursor]_vars

\* channel 1 between its attaches and detaches, while messages arrive and the
\* clock and GC_cycler run
NextRoundTrip ==
    \/ \E message_id \in Ids : InsertLive(1, Registered(message_id))
    \/ Attach(1)
    \/ TrackedDetach
    \/ Tick
    \/ AdvanceTime

SpecRoundTrip == Init /\ [][NextRoundTrip]_vars

\* both channels with attaches and detaches, the clock and GC_cycler; the live
\* messages and the removals are those of channel 1
NextDemotion ==
    \/ \E message_id \in Ids : InsertLive(1, Registered(message_id))
    \/ \E message_id \in Ids : Remove(1, message_id)
    \/ \E c \in Channels : Attach(c)
    \/ \E c \in Channels : Detach(c)
    \/ Tick
    \/ AdvanceTime

SpecDemotion == Init /\ [][NextDemotion]_vars

\* a detach early enough for the clock of the model to pass its deadline
LiveDetach(c) ==
    /\ now + GracePeriod < MaxTime
    /\ Detach(c)

\* both channels with attaches and detaches and the live messages of channel 1;
\* the clock keeps running and GC_cycler keeps calling GC_messages
NextLive ==
    \/ \E message_id \in Ids : InsertLive(1, Registered(message_id))
    \/ \E c \in Channels : Attach(c)
    \/ \E c \in Channels : LiveDetach(c)
    \/ Tick
    \/ AdvanceTime

SpecLive == Init /\ [][NextLive]_vars /\ WF_vars(Tick) /\ WF_vars(AdvanceTime)

\* _mc_pop_multiple sorts its ids first: the sorted lists stand for every order
SortedIdLists == {ids \in IdLists : SortDesc(ids) = ids}

\* a batched removal from channel 1 while its demotion is pending
PendingRemoveBatch(ids) ==
    /\ chan[1].turn_gc_on_at # 0
    /\ RemoveBatch(1, ids)

\* the calls of iterator 1, with the history of what they returned
TrackedNewIterator(chunksize) ==
    /\ NewIteratorCall(1, chunksize)
    /\ returned' = <<>>

TrackedAnext ==
    /\ AnextCall(1)
    /\ returned' = returned \o anext(iter[1], chan[1]).val

TrackedLoaded(data) ==
    /\ LoadedCall(1, data)
    /\ returned' = returned \o
           anext_resume(iter[1], load_messages_till(chan[1], MESSAGES, data).channel,
                        NoError).val

TrackedLoadFailed(err) ==
    /\ LoadFailedCall(1, err)
    /\ returned' = returned \o anext_resume(iter[1], chan[1], err).val

\* what happens to channel 1 before its first iterator is constructed
EarlyInsertLive(message) ==
    /\ iter[1].pc = "none"
    /\ InsertLive(1, message)

EarlyAttach ==
    /\ iter[1].pc = "none"
    /\ Attach(1)

\* iterator 1 alone with channel 1: once it is constructed, only its own calls
\* and the pages they load touch the cache
NextOrder ==
    \/ \E message_id \in Ids : EarlyInsertLive(Registered(message_id))
    \/ EarlyAttach
    \/ \E chunksize \in ChunkSizes : TrackedNewIterator(chunksize)
    \/ TrackedAnext
    \/ \E data \in Pages : TrackedLoaded(data)
    \/ \E err \in LoadErrors : TrackedLoadFailed(err)

SpecOrder == Init /\ [][NextOrder]_vars

\* a live message newer than every cached one arrives in the unbounded cache
NewerInsertLive(message_id) ==
    /\ chan[1].maxlen = None
    /\ ~MESSAGES[message_id]
    /\ \A i \in 1..Len(chan[1].messages) : chan[1].messages[i].id < message_id
    /\ InsertLive(1, Registered(message_id))

\* iterator 1 is constructed over the unbounded cache
UnboundedNewIterator(chunksize) ==
    /\ chan[1].maxlen = None
    /\ TrackedNewIterator(chunksize)

\* iterator 1 over the unbounded cache of channel 1 while newer live messages
\* arrive between its calls
NextNewer ==
    \/ Attach(1)
    \/ \E message_id \in Ids : NewerInsertLive(message_id)
    \/ \E chunksize \in ChunkSizes : UnboundedNewIterator(chunksize)
    \/ TrackedAnext
    \/ \E data \in Pages : TrackedLoaded(data)
    \/ \E err \in LoadErrors : TrackedLoadFailed(err)

SpecNewer == Init /\ [][NextNewer]_vars

\* the caches message_relativeindex is called on: every strictly descending
\* sequence of messages, in an unbounded channel 1, with its ids registered
SortedCaches == {self \in SeqsUpTo(Messages, MaxLen) : StrictlyDescending(SeqIds(self))}

InitSearch ==
    /\ \E self \in SortedCaches :
           /\ chan = [c \in Channels |->
                         IF c = 1
                         THEN [mc_init EXCEPT !.maxlen = None, !.messages = self]
                         ELSE mc_init]
           /\ MESSAGES = [i \in Ids |-> i \in IdSet(self)]
    /\ Q_on_GC = <<>>
    /\ now = 1
    /\ ret = NoCall
    /\ kept = {}
    /\ iter = [k \in Cursors |-> NoIterator]
    /\ can_read_message_history = TRUE
    /\ mark = NoMark
    /\ returned = <<>>

\* the callers of message_relativeindex on channel 1
NextSearch ==
    \/ \E message_id \in Ids : Locate(1, message_id)
    \/ \E message_id \in Ids : Remove(1, message_id)
    \/ \E message \in Messages : InsertLive(1, message)

SpecSearch == InitSearch /\ [][NextSearch]_vars

\* both channels with attaches and detaches, the clock and GC_cycler, and the
\* calls on channel 1 that dequeue it: removals, single at any time and batched
\* while the demotion is pending
NextQueue ==
    \/ \E message_id \in Ids : InsertLive(1, Registered(message_id))
    \/ \E message_id \in Ids : Remove(1, message_id)
    \/ \E ids \in SortedIdLists : PendingRemoveBatch(ids)
    \/ \E c \in Channels : Attach(c)
    \/ \E c \in Channels : Detach(c)
    \/ Tick
    \/ AdvanceTime

SpecQueue == Init /\ [][NextQueue]_vars

\* one iterator finds the history of channel 1 at its end (its load brings an
\* empty page) while the channel is attached and detached, messages arrive and
\* are removed, and GC_cycler runs
NextHistoryEnd ==
    \/ NewIterator(1, MAX_CHUNK)
    \/ Anext(1)
    \/ Loaded(1, <<>>)
    \/ \E message_id \in Ids : InsertLive(1, Registered(message_id))
    \/ \E message_id \in Ids : Remove(1, message_id)
    \/ Attach(1)
    \/ Detach(1)
    \/ Tick
    \/ AdvanceTime

SpecHistoryEnd == Init /\ [][NextHistoryEnd]_vars

\* two iterators over the unbounded cache of channel 1, constructed with the
\* largest chunk size by a client that may read the history
InitRace ==
    /\ chan = [c \in Channels |-> [mc_init EXCEPT !.maxlen = None]]
    /\ Q_on_GC = <<>>
    /\ MESSAGES = [i \in Ids |-> FALSE]
    /\ now = 1
    /\ ret = NoCall
    /\ kept = {}
    /\ iter = [k \in Cursors |-> MessageIterator_init(MAX_CHUNK, TRUE)]
    /\ can_read_message_history = TRUE
    /\ mark = NoMark
    /\ returned = <<>>

\* the race is followed up to the first cache that is out of order
InOrder == StrictlyDescending(SeqIds(chan[1].messages))

RaceAnext(k) == InOrder /\ Anext(k)

RaceLoaded(k, data) == InOrder /\ Loaded(k, data)

RaceInsertLive(message) == InOrder /\ InsertLive(1, message)

RaceRemove(message_id) == InOrder /\ Remove(1, message_id)

RaceRemoveBatch(ids) == InOrder /\ RemoveBatch(1, ids)

\* the two iterators load pages of channel 1 while live messages and deletions arrive
NextRace ==
    \/ \E k \in Cursors : RaceAnext(k)
    \/ \E k \in Cursors : \E data \in Pages : RaceLoaded(k, data)
    \/ \E message_id \in Ids : RaceInsertLive(Registered(message_id))
    \/ \E message_id \in Ids : RaceRemove(message_id)
    \/ \E ids \in IdLists \ {<<>>} : RaceRemoveBatch(ids)

SpecRace == InitRace /\ [][NextRace]_vars

\* ----------------------------------------------------------------- claims
Entries == chan[1].messages

Bounded == chan[1].maxlen # None

Pending == chan[1].turn_gc_on_at # 0

Range(s) == {s[i] : i \in 1..Len(s)}

Count(s, message_id) == Cardinality({i \in 1..Len(s) : s[i].id = message_id})

\* the cached object with this id
Cached(self, message_id) == CHOOSE m \in Range(self) : m.id = message_id

Without(self, message_id) ==
    LET Other(m) == m.id # message_id
    IN  SelectSeq(self, Other)

\* the n largest elements of S, all of S when it has fewer
Largest(S, n) == {x \in S : Cardinality({y \in S : y > x}) < n}

\* C1: after any sequence of calls, in the bounded and in the unbounded mode, the
\* cached messages are strictly descending by id, so no id is cached twice
SortInvariant == \A c \in Channels : StrictlyDescending(SeqIds(chan[c].messages))

\* an unbounded cache that holds every id, reached by an insert
SortWitness ==
    /\ ret.op = "InsertLive"
    /\ ~Bounded
    /\ Len(Entries) = MaxId

\* C2: a bounded cache never holds more messages than the limit last set
CapacityInvariant ==
    \A c \in Channels :
        chan[c].maxlen # None => Len(chan[c].messages) <= chan[c].mc_gc_limit

\* C3: a bounded cache holds exactly the N largest ids among those inserted and
\* not removed, N being its limit
BoundedGrowth ==
    Bounded => IdSet(Entries) = Largest(kept, chan[1].mc_gc_limit)

\* C4: inserting an id that is cached, by any insert or by a page, keeps one entry
\* with the id, and the call returns the cached object
IdempotentInsert ==
    /\ \A message \in Messages :
          message.id \in IdSet(Entries) =>
              \A r \in {mc_insert_new_message(chan[1], message),
                        mc_insert_old_message(chan[1], message)} :
                  /\ r.err = NoError
                  /\ r.val = <<Cached(Entries, message.id)>>
                  /\ Count(r.messages, message.id) = 1
    /\ \A data \in Pages :
          PageFor(chan[1], data) =>
              LET r == mc_process_chunk(chan[1], MESSAGES, data)
              IN  \A i \in 1..Len(data) :
                      data[i] \in IdSet(Entries) =>
                          /\ Count(r.messages, data[i]) = 1
                          /\ Count(r.val, data[i]) >= 1

RECURSIVE pop_each(_, _, _, _, _)
pop_each(channel, q, registry, c, ids) ==
    IF Len(ids) = 0 THEN [channel |-> channel, Q |-> q]
    ELSE LET r == mc_pop(channel, q, registry, c, Head(ids))
         IN  pop_each(r.channel, r.Q, r.registry, c, Tail(ids))

\* C6: _mc_pop_multiple leaves the channel and the demotion queue as _mc_pop on
\* each id does, whatever the order of the ids
BatchEquivalence ==
    \A ids \in IdLists :
        LET batch == mc_pop_multiple(chan[1], Q_on_GC, MESSAGES, 1, ids)
            single == pop_each(chan[1], Q_on_GC, MESSAGES, 1, ids)
        IN  batch.channel = single.channel /\ batch.Q = single.Q

\* C7: every requested id that is cached or registered is in the result of
\* _mc_pop_multiple once, and no other id is (lists without a repeated id)
BatchResult ==
    \A ids \in IdLists :
        Cardinality(Range(ids)) = Len(ids) =>
            LET r == mc_pop_multiple(chan[1], Q_on_GC, MESSAGES, 1, ids)
            IN  \A i \in 1..Len(ids) :
                    Count(r.val, ids[i]) =
                        IF ids[i] \in IdSet(Entries) \/ MESSAGES[ids[i]] THEN 1 ELSE 0

BackfillAppends ==
    \A data \in Pages :
        ~Bounded /\ PageFor(chan[1], data) /\ IdSet(Entries) \cap Range(data) = {} =>
            LET r == mc_process_chunk(chan[1], MESSAGES, data)
                New(message_id) == ~MESSAGES[message_id]
                tail == SubSeq(r.messages, Len(Entries) + 1, Len(r.messages))
            IN  /\ SubSeq(r.messages, 1, Min(Len(Entries), Len(r.messages))) = Entries
                /\ SelectSeq(SeqIds(tail), New) = SelectSeq(data, New)

\* C10: the result of _mc_process_chunk has one element for each payload of the
\* page, the i-th being the message of the i-th payload
BackfillOutput ==
    \A data \in Pages :
        PageFor(chan[1], data) =>
            LET r == mc_process_chunk(chan[1], MESSAGES, data)
            IN  SeqIds(r.val) = data

\* Message.fromchannel on each payload of the page in turn: the cached messages
RECURSIVE resolve_each(_, _, _)
resolve_each(channel, registry, data) ==
    IF Len(data) = 0 THEN channel.messages
    ELSE LET r == Message_fromchannel(channel, registry, Head(data))
         IN  resolve_each([channel EXCEPT !.messages = r.messages], r.registry, Tail(data))

\* the first k payloads of the page are registered, the others are not
Overlap(data, k) ==
    /\ \A i \in 1..k : MESSAGES[data[i]]
    /\ \A i \in (k + 1)..Len(data) : ~MESSAGES[data[i]]

\* C11: for every page and every overlap k, 0 to the whole page, _mc_process_chunk
\* leaves the same set of cached ids as resolving the payloads one by one does
BackfillFastPath ==
    \A data \in Pages : \A k \in 0..Len(data) :
        PageFor(chan[1], data) /\ Overlap(data, k) =>
            IdSet(mc_process_chunk(chan[1], MESSAGES, data).messages)
                = IdSet(resolve_each(chan[1], MESSAGES, data))

\* C12: while live inserts and removals interleave with the loads of two
\* iterators, every reconciled page leaves the cache strictly descending by id,
\* and no call ends in an error
RaceConsistent ==
    /\ ret.op = "Next" => StrictlyDescending(SeqIds(Entries))
    /\ ret.err \in {NoError, "StopAsyncIteration", "await"}

\* C13: a channel that was detached and is attached again before its deadline,
\* with ticks and live messages in between, is unbounded, has no deadline, is
\* not queued, and holds every message it held at the detach, in the same order
RoundTrip ==
    ret = Call("Attach", 1, NoError) /\ now < mark.deadline =>
        /\ ~Bounded /\ ~Pending /\ ~InQueue(Q_on_GC, 1)
        /\ LET InMark(m) == m \in Range(mark.messages)
           IN  SelectSeq(Entries, InMark) = mark.messages

\* the attach follows a detach that left at least MC_GC_LIMIT messages, and a
\* message arrived in between
RoundTripWitness ==
    /\ ret = Call("Attach", 1, NoError) /\ now < mark.deadline
    /\ Len(mark.messages) >= MC_GC_LIMIT
    /\ Len(Entries) > Len(mark.messages)

CancelledStays ==
    LET r == GC_messages(chan, Q_on_GC, now)
    IN  \A c \in Channels :
            chan[c].turn_gc_on_at = 0 \/ now < chan[c].turn_gc_on_at =>
                /\ r.chan[c] = chan[c]
                /\ InQueue(r.Q, c) <=> InQueue(Q_on_GC, c)

\* a tick left channel 1 unbounded with more than MC_GC_LIMIT messages and
\* channel 2 queued before its deadline
CancelledStaysWitness ==
    /\ ret.op = "Tick"
    /\ ~Bounded /\ ~Pending /\ Len(Entries) > MC_GC_LIMIT
    /\ InQueue(Q_on_GC, 2) /\ now < chan[2].turn_gc_on_at

\* C16: the setter called with a limit below the number of cached messages keeps
\* the first limit messages and bounds the cache by the limit, and called with
\* the limit in force it changes nothing
ShrinkCapacity ==
    \A limit \in 1..MaxCapacity :
        LET r == set_mc_gc_limit(chan[1], limit)
        IN  /\ limit < Len(Entries) =>
                /\ r.messages = SubSeq(Entries, 1, limit)
                /\ r.maxlen = limit
            /\ limit = chan[1].mc_gc_limit => r = chan[1]

\* C17: an iterator whose index is at or past the end of the cache, in a channel
\* whose history reached its end or without the permission at construction,
\* raises StopAsyncIteration and does not call _load_messages_till
NoFetchAtEnd ==
    \A k \in Cursors :
        /\ iter[k].pc = "idle"
        /\ iter[k].index >= Len(Entries)
        /\ chan[1].message_history_reached_end \/ iter[k].permission
        => LET r == anext(iter[k], chan[1])
           IN  r.out = "StopAsyncIteration" /\ r.till = 0 /\ r.it = iter[k]

\* an iterator without the permission walked a cache of two and was stopped there
NoFetchWitness ==
    /\ ret = Call("Next", 1, "StopAsyncIteration")
    /\ iter[1].pc = "idle" /\ iter[1].permission
    /\ ~chan[1].message_history_reached_end
    /\ iter[1].index = Len(Entries) /\ Len(Entries) = 2

\* C18: when _load_messages_till raises, whatever the error, __anext__ ends with
\* that error, not with StopAsyncIteration and not with a message
FetchFailureReported ==
    \A k \in Cursors :
        iter[k].pc = "await" =>
            \A err \in LoadErrors : anext_resume(iter[k], chan[1], err).out = err

\* C19: _mc_insert_new_message of a message newer than the first cached one puts
\* it first and keeps the others behind it in their order, without the last one
\* when the cache is bounded and holds as many messages as its limit
NewHead ==
    \A message \in Messages :
        Len(Entries) > 0 /\ message.id > Entries[1].id =>
            LET r == mc_insert_new_message(chan[1], message)
                full == Bounded /\ Len(Entries) >= chan[1].mc_gc_limit
            IN  /\ r.err = NoError
                /\ r.messages = <<message>> \o
                       (IF full THEN SubSeq(Entries, 1, Len(Entries) - 1) ELSE Entries)

\* C20: _mc_insert_asynced_message of an id that is not cached, into a full
\* bounded cache, leaves what the insert at the sorted place followed by the
\* eviction of the last message leaves
SortedInsertOverflow ==
    \A message \in Messages :
        /\ deque_full(Entries, chan[1].maxlen) /\ Len(Entries) > 0
        /\ message.id \notin IdSet(Entries)
        => LET index == message_relativeindex(Entries, message.id)
               r == mc_insert_asynced_message(chan[1], message)
           IN  r.messages = SubSeq(deque_insert(Entries, index, message), 1, Len(Entries))

\* C21: _mc_insert_old_message of a message older than every cached one, or into
\* an empty cache, returns without error and leaves the message last, without
\* the first cached message when the cache was full; any other message goes
\* through _mc_insert_asynced_message
HistoricalAppend ==
    \A message \in Messages :
        chan[1].maxlen # 0 =>
            LET r == mc_insert_old_message(chan[1], message)
                kept_part == IF deque_full(Entries, chan[1].maxlen)
                             THEN Tail(Entries) ELSE Entries
            IN  IF Len(Entries) = 0 \/ message.id < Entries[Len(Entries)].id
                THEN r.err = NoError /\ r.messages = Append(kept_part, message)
                ELSE r = mc_insert_asynced_message(chan[1], message)

\* the pending demotion was applied by the call
Applied(channel, q) ==
    /\ channel.turn_gc_on_at = 0
    /\ ~InQueue(q, 1)
    /\ channel.maxlen = chan[1].mc_gc_limit

\* the pending demotion is as it was before the call
StillPending(channel, q) ==
    /\ channel.turn_gc_on_at = chan[1].turn_gc_on_at
    /\ InQueue(q, 1)
    /\ channel.maxlen = None

\* C22: a _mc_pop or _mc_pop_multiple that removes a message while a demotion is
\* pending applies the demotion in the same call when the cache is left with no
\* more messages than the limit, the limit itself included, and leaves the
\* demotion pending when more messages are left
EarlyCancellation ==
    Pending /\ ~Bounded /\ chan[1].mc_gc_limit # 0 =>
        /\ \A message_id \in IdSet(Entries) :
               LET r == mc_pop(chan[1], Q_on_GC, MESSAGES, 1, message_id)
               IN  IF Len(r.channel.messages) <= chan[1].mc_gc_limit
                   THEN Applied(r.channel, r.Q)
                   ELSE StillPending(r.channel, r.Q)
        /\ \A ids \in IdLists :
               Range(ids) \cap IdSet(Entries) # {} =>
                   LET r == mc_pop_multiple(chan[1], Q_on_GC, MESSAGES, 1, ids)
                   IN  IF Len(r.channel.messages) <= chan[1].mc_gc_limit
                       THEN Applied(r.channel, r.Q)
                       ELSE StillPending(r.channel, r.Q)

\* C23: the setter called with 0 empties the cache, and while the limit is 0
\* every insert and every page leaves the cache empty, _mc_find finds no id in
\* the cache, and _mc_pop answers from the registry and purges the id there
ZeroCapacity ==
    /\ set_mc_gc_limit(chan[1], 0).messages = <<>>
    /\ set_mc_gc_limit(chan[1], 0).mc_gc_limit = 0
    /\ chan[1].mc_gc_limit = 0 =>
        /\ Entries = <<>>
        /\ \A message \in Messages :
               /\ mc_insert_new_message(chan[1], message).messages = <<>>
               /\ mc_insert_old_message(chan[1], message).messages = <<>>
               /\ mc_insert_old_message(chan[1], message).err = NoError
        /\ \A data \in Pages : mc_process_chunk(chan[1], MESSAGES, data).messages = <<>>
        /\ \A message_id \in Ids :
               /\ ~mc_find(chan[1], MESSAGES, message_id).found
               /\ LET r == mc_pop(chan[1], Q_on_GC, MESSAGES, 1, message_id)
                  IN  /\ r.val = RegistryGet(MESSAGES, message_id)
                      /\ r.registry = RegistryPop(MESSAGES, message_id)
                      /\ r.channel = chan[1] /\ r.Q = Q_on_GC /\ r.err = NoError

\* a live insert into a cache of limit 0 that held messages before
ZeroCapacityWitness ==
    /\ ret.op = "InsertLive"
    /\ chan[1].mc_gc_limit = 0
    /\ Cardinality({message_id \in Ids : MESSAGES[message_id]}) >= 2

\* C24: the setter called with a positive limit on a cache of limit 0 clears
\* message_history_reached_end, and the cache then keeps the messages inserted,
\* up to the new limit
GrowFromZero ==
    chan[1].mc_gc_limit = 0 =>
        \A limit \in 1..MaxCapacity :
            LET r == set_mc_gc_limit(chan[1], limit)
            IN  /\ ~r.message_history_reached_end
                /\ r.mc_gc_limit = limit
                /\ \A message \in Messages :
                       mc_insert_new_message(r, message).messages = <<message>>

\* C25: the calls that only shrink the cache, the setter with a smaller positive
\* limit, GC_messages, and the early demotion in _mc_pop and _mc_pop_multiple,
\* leave message_history_reached_end as it was
HistoryEndKept ==
    LET end == chan[1].message_history_reached_end
    IN  /\ \A limit \in 1..MaxCapacity :
               limit < chan[1].mc_gc_limit =>
                   set_mc_gc_limit(chan[1], limit).message_history_reached_end = end
        /\ GC_messages(chan, Q_on_GC, now).chan[1].message_history_reached_end = end
        /\ \A message_id \in Ids :
               mc_pop(chan[1], Q_on_GC, MESSAGES, 1, message_id)
                   .channel.message_history_reached_end = end
        /\ \A ids \in IdLists :
               mc_pop_multiple(chan[1], Q_on_GC, MESSAGES, 1, ids)
                   .channel.message_history_reached_end = end

\* C26: GC_messages run at a time equal to the deadline of a queued channel, or
\* later, switches the channel: no deadline, out of the queue, bounded
DeadlineBoundary ==
    LET r == GC_messages(chan, Q_on_GC, now)
    IN  \A c \in Channels :
            InQueue(Q_on_GC, c) /\ chan[c].turn_gc_on_at <= now =>
                /\ r.chan[c].turn_gc_on_at = 0
                /\ ~InQueue(r.Q, c)
                /\ r.chan[c].maxlen = chan[c].mc_gc_limit

\* C27: a detach leaves the cache unbounded with the messages it had; GC_messages
\* run before the deadline of a queued channel leaves the channel and its place
\* in the queue as they are, and it never changes a channel that is not queued
NoEarlyDemotion ==
    LET r == GC_messages(chan, Q_on_GC, now)
    IN  /\ ret = Call("Detach", 1, NoError) =>
            ~Bounded /\ Entries = mark.messages /\ InQueue(Q_on_GC, 1)
        /\ \A c \in Channels :
               IF InQueue(Q_on_GC, c)
               THEN now < chan[c].turn_gc_on_at => r.chan[c] = chan[c] /\ InQueue(r.Q, c)
               ELSE r.chan[c] = chan[c] /\ ~InQueue(r.Q, c)

\* a tick ran before the deadline of channel 1, which holds more messages than
\* MC_GC_LIMIT and is still queued and unbounded
NoEarlyDemotionWitness ==
    /\ ret.op = "Tick"
    /\ Pending /\ InQueue(Q_on_GC, 1) /\ now < chan[1].turn_gc_on_at
    /\ ~Bounded /\ Len(Entries) > MC_GC_LIMIT
    /\ Entries = mark.messages

KnownPage ==
    \A c \in Channels : \A data \in Pages :
        (\A i \in 1..Len(data) : MESSAGES[data[i]]) =>
            mc_process_chunk(chan[c], MESSAGES, data).messages = chan[c].messages

\* after a chunk, a cache of two or more with a page of two cached messages
KnownPageWitness ==
    /\ ret.op = "ProcessChunk"
    /\ Len(Entries) >= 2
    /\ \E data \in Pages :
           /\ Len(data) >= 2
           /\ Range(data) \subseteq IdSet(Entries)
           /\ \A i \in 1..Len(data) : MESSAGES[data[i]]

\* C30: __anext__ of an iterator whose index is below the length of the cache
\* returns the message at that index of the cache as it is now, moves the index
\* by one and asks for no messages
CursorStep ==
    \A k \in Cursors :
        iter[k].pc = "idle" /\ iter[k].index < Len(Entries) =>
            LET r == anext(iter[k], chan[1])
            IN  /\ r.out = NoError
                /\ r.val = <<Entries[iter[k].index + 1]>>
                /\ r.it = [iter[k] EXCEPT !.index = iter[k].index + 1]
                /\ r.till = 0

\* the iterator returned the second message of the cache and a third is there
CursorStepWitness ==
    /\ ret = Call("Next", 1, NoError)
    /\ iter[1].pc = "idle"
    /\ iter[1].index = 2
    /\ Len(Entries) > 2

\* C31: an __anext__ that awaits _load_messages_till ends when the page is
\* reconciled: it returns the message at its index and moves the index by one
\* when the cache now reaches the index, raises StopAsyncIteration with the index
\* as it was when it does not, and never asks for messages a second time
CursorRetry ==
    \A k \in Cursors :
        iter[k].pc = "await" =>
            \A data \in Pages :
                PageOf(iter[k], data) =>
                    LET l == load_messages_till(chan[1], MESSAGES, data)
                        r == anext_resume(iter[k], l.channel, NoError)
                        index == iter[k].index
                    IN  /\ r.out \in {NoError, "StopAsyncIteration"}
                        /\ IF Len(l.channel.messages) > index
                           THEN /\ r.out = NoError
                                /\ r.val = <<l.channel.messages[index + 1]>>
                                /\ r.it = [iter[k] EXCEPT !.index = index + 1]
                           ELSE /\ r.out = "StopAsyncIteration"
                                /\ r.it = iter[k]

\* an iterator with the permission was stopped behind a cache of two whose history
\* is not marked as ended: its page did not bring the cache to its index
CursorRetryWitness ==
    /\ ret = Call("Next", 1, "StopAsyncIteration")
    /\ iter[1].pc = "idle" /\ ~iter[1].permission
    /\ ~chan[1].message_history_reached_end
    /\ iter[1].index = Len(Entries) /\ Len(Entries) = 2

\* C32: _permission is read in __init__ only: no later step changes it, and an
\* __anext__ behind the cache of a channel whose history is not ended asks for
\* messages exactly when the iterator was constructed with the permission,
\* whatever the permission of the client is at the call
PermissionSnapshot ==
    /\ [](\A k \in Cursors :
              /\ iter[k].pc = "idle"
              /\ iter[k].index >= Len(Entries)
              /\ ~chan[1].message_history_reached_end
              => (anext(iter[k], chan[1]).out = "await" <=> ~iter[k].permission))
    /\ [][\A k \in Cursors :
              iter'[k].permission # iter[k].permission => ret'.op = "NewIterator"]_vars

\* an iterator constructed with the permission asked for messages after the
\* permission was taken from the client
PermissionSnapshotWitness ==
    /\ ret = Call("Next", 1, "await")
    /\ iter[1].pc = "await" /\ ~iter[1].permission
    /\ ~can_read_message_history
    /\ iter[1].index >= 1

\* C33: the chunksize of an iterator is the smaller of the requested one and 97,
\* and an __anext__ that asks for messages at index i asks _load_messages_till
\* for i + chunksize of them, never more than 97 past its index
ChunkSizeCap ==
    /\ \A chunksize \in ChunkSizes : \A can_read \in BOOLEAN :
           MessageIterator_init(chunksize, can_read).chunksize = Min(chunksize, MAX_CHUNK)
    /\ \A k \in Cursors :
           iter[k].pc = "idle" =>
               LET r == anext(iter[k], chan[1])
               IN  r.out = "await" =>
                       /\ r.till = iter[k].index + iter[k].chunksize
                       /\ r.till - iter[k].index <= MAX_CHUNK
    /\ \A k \in Cursors : iter[k].chunksize <= MAX_CHUNK

\* an iterator with the largest chunksize asks for messages behind a cache of two
ChunkSizeCapWitness ==
    /\ ret = Call("Next", 1, "await")
    /\ iter[1].pc = "await"
    /\ iter[1].chunksize = MAX_CHUNK
    /\ iter[1].index = 2 /\ Len(Entries) = 2

\* C34: a channel is in Q_on_GC exactly when its _turn_gc_on_at is set, and at
\* most once; so the Q_on_GC.remove of the early demotion in _mc_pop and
\* _mc_pop_multiple finds the channel and raises no ValueError
QueueConsistent ==
    /\ \A c \in Channels :
           /\ InQueue(Q_on_GC, c) <=> chan[c].turn_gc_on_at # 0
           /\ Cardinality({i \in 1..Len(Q_on_GC) : Q_on_GC[i] = c}) <= 1
    /\ ret.err # "ValueError"

\* a removal below the limit took channel 1 out of the queue before any deadline
\* passed, and channel 2 is still waiting in it
QueueConsistentWitness ==
    /\ ret = Call("Remove", 1, NoError)
    /\ now = 1
    /\ chan[1].maxlen = MC_GC_LIMIT /\ chan[1].mc_gc_limit = MC_GC_LIMIT
    /\ chan[1].turn_gc_on_at = 0 /\ ~InQueue(Q_on_GC, 1)
    /\ Len(Entries) = MC_GC_LIMIT - 1
    /\ Q_on_GC = <<2>> /\ chan[2].turn_gc_on_at # 0

\* the channel without its pending demotion: a removal from it only deletes
NotPending(channel) == [channel EXCEPT !.turn_gc_on_at = 0]

\* C35: a _mc_pop or _mc_pop_multiple that applies the pending demotion of its
\* channel leaves the messages that the deletion alone leaves, in their order;
\* only maxlen, the deadline and the queue entry differ
CancellationKeeps ==
    chan[1].turn_gc_on_at # 0 =>
        /\ \A message_id \in Ids :
               LET r == mc_pop(chan[1], Q_on_GC, MESSAGES, 1, message_id)
                   d == mc_pop(NotPending(chan[1]), Q_on_GC, MESSAGES, 1, message_id)
               IN  r.channel.turn_gc_on_at = 0 =>
                       /\ r.channel.messages = d.channel.messages
                       /\ r.channel.mc_gc_limit = chan[1].mc_gc_limit
                       /\ r.val = d.val /\ r.registry = d.registry
        /\ \A ids \in SortedIdLists :
               LET r == mc_pop_multiple(chan[1], Q_on_GC, MESSAGES, 1, ids)
                   d == mc_pop_multiple(NotPending(chan[1]), Q_on_GC, MESSAGES, 1, ids)
               IN  r.channel.turn_gc_on_at = 0 =>
                       /\ r.channel.messages = d.channel.messages
                       /\ r.channel.mc_gc_limit = chan[1].mc_gc_limit
                       /\ r.val = d.val

\* a batched removal applied the demotion of channel 1 before any deadline passed
\* and left one message
CancellationKeepsWitness ==
    /\ ret = Call("RemoveBatch", 1, NoError)
    /\ now = 1
    /\ chan[1].maxlen = MC_GC_LIMIT
    /\ chan[1].turn_gc_on_at = 0 /\ Q_on_GC = <<>>
    /\ Len(Entries) = MC_GC_LIMIT - 1

\* C36: with nothing but its own calls touching the channel, the messages an
\* iterator returned are in strictly descending order of id, every cached
\* message the index has passed was returned exactly once, and the index is the
\* number of messages returned
CursorOrder ==
    iter[1].pc # "none" =>
        /\ StrictlyDescending(SeqIds(returned))
        /\ \A i \in 1..Len(Entries) :
               i <= iter[1].index => Count(returned, Entries[i].id) = 1
        /\ iter[1].index = Len(returned)

\* C37: with newer live messages arriving in the unbounded cache between its
\* calls, an iterator returns no message id twice
NoRepeat ==
    \A i, j \in 1..Len(returned) : i # j => returned[i].id # returned[j].id

\* C38: an __anext__ that raises StopAsyncIteration leaves _index as it was, no
\* call of an iterator lowers its _index, and an iterator that can load nothing
\* (history at its end, or no permission) still returns the message at its
\* index once the cache has grown past it
IndexKept ==
    /\ [](\A k \in Cursors :
              /\ iter[k].pc = "idle"
              /\ chan[1].message_history_reached_end \/ iter[k].permission
              => LET r == anext(iter[k], chan[1])
                 IN  IF iter[k].index < Len(Entries)
                     THEN /\ r.out = NoError
                          /\ r.val = <<Entries[iter[k].index + 1]>>
                     ELSE /\ r.out = "StopAsyncIteration"
                          /\ r.it = iter[k])
    /\ [][\A k \in Cursors :
              /\ ret'.op # "NewIterator" => iter'[k].index >= iter[k].index
              /\ ret' = Call("Next", k, "StopAsyncIteration") =>
                     iter'[k].index = iter[k].index]_vars

\* an iterator without the permission, which loads nothing, returned the last
\* message of a cache of two or more
IndexKeptWitness ==
    /\ ret = Call("Next", 1, NoError)
    /\ iter[1].permission
    /\ iter[1].pc = "idle"
    /\ iter[1].index = Len(Entries) /\ Len(Entries) >= 2

\* the ids message_relativeindex is asked for: the cached ones, one below and one
\* above them
Targets == 0..(MaxId + 1)

\* C39: on a strictly descending sequence message_relativeindex ends, with an
\* index r from 0 to the length: every message before r has an id above the
\* target, every message from r on has an id not above it
BinarySearch ==
    StrictlyDescending(SeqIds(Entries)) =>
        \A message_id \in Targets :
            LET r == message_relativeindex(Entries, message_id)
            IN  /\ 0 <= r /\ r <= Len(Entries)
                /\ \A i \in 1..Len(Entries) :
                       IF i <= r THEN Entries[i].id > message_id
                       ELSE Entries[i].id <= message_id

\* a lookup in a sorted cache of three or more, where the loop halves twice
BinarySearchWitness ==
    /\ ret.op = "Locate"
    /\ Len(Entries) >= 3
    /\ StrictlyDescending(SeqIds(Entries))

=============================================================================
